---- MODULE Spec2Model ----
(***************************************************************************)
(* Model of the terminal hangman game of src/src/game.rs (HangmanGame).    *)
(* Characters are modelled by their Unicode code points, strings by        *)
(* sequences of code points.                                               *)
(***************************************************************************)
EXTENDS Integers, Sequences, FiniteSets, TLC

VARIABLES phrase, lives, guesses, should_quit, guess, pc, farewell,
          queue, events, result

vars == <<phrase, lives, guesses, should_quit, guess, pc, farewell,
          queue, events, result>>

\* ------------------------------------------------------------------ bounds

\* Longest secret phrase the model constructs a game with.
MaxPhraseLen == 2

\* Characters a secret phrase is built from: a, b, A and the space.
PhraseChars == {97, 98, 65, 32}

\* Letters the player can type: a b e q r w and A.
KeyLetters == {97, 98, 101, 113, 114, 119, 65}

\* Digits the player can type: 1 and ARABIC-INDIC DIGIT ONE (U+0661), whose
\* low byte is 0x61.
KeyDigits == {49, 1633}

\* Symbols the player can type: the left brace, next after z.
KeySymbols == {123}

\* Whitespace the player can type: the space.
KeySpaces == {32}

\* LATIN CAPITAL LETTER L WITH STROKE (U+0141), whose low byte is 0x41.
KeyOthers == {321}

Keys == KeyLetters \cup KeyDigits \cup KeySymbols \cup KeySpaces \cup KeyOthers

\* Characters of a command-line phrase before validation: those above and
\* LATIN SMALL LETTER E WITH ACUTE (U+00E9), two bytes in UTF-8.
RawPhraseChars == PhraseChars \cup {233}

\* Most characters the player types in one round before ending it, where
\* the key events of a round are modelled one by one.
MaxTyped == 2

\* The characters typed there: a, q and 1.
TypedChars == {97, 113, 49}

\* ------------------------------------------------------- program constants

CAPITAL == 65..90

LOWERCASE == 97..122

InitialLives == 6

Underscore == 95

\* ---------------------------------------------------------- pure functions

\* `ch as u8`: the low eight bits of the code point.
AsU8(ch) == ch % 256

GuessError == [ok |-> FALSE, ch |-> 0]

Lowercase(ch) ==
    LET chu8 == AsU8(ch) IN
    IF chu8 \in LOWERCASE THEN [ok |-> TRUE, ch |-> ch]
    ELSE IF chu8 \in CAPITAL THEN [ok |-> TRUE, ch |-> chu8 + 32]
    ELSE GuessError

\* is_alpha_utf that forgets the capital range.
IsAlphaUtfLowerOnly(byte) == byte \in LOWERCASE

IsAlphaUtf(byte) == byte \in CAPITAL \/ byte \in LOWERCASE

\* Vec::contains / str::contains(char): an exact match of one element.
Contains(s, x) == \E i \in 1..Len(s) : s[i] = x

\* All bytes of a validated phrase are below 128.
ValidPhrase(p) == \A i \in 1..Len(p) : p[i] < 128

\* The UTF-8 encoding of a code point.
Utf8(c) ==
    IF c < 128 THEN <<c>>
    ELSE IF c < 2048 THEN <<192 + (c \div 64), 128 + (c % 64)>>
    ELSE IF c < 65536
    THEN <<224 + (c \div 4096), 128 + ((c \div 64) % 64), 128 + (c % 64)>>
    ELSE <<240 + (c \div 262144), 128 + ((c \div 4096) % 64),
           128 + ((c \div 64) % 64), 128 + (c % 64)>>

\* str::as_bytes.
RECURSIVE AsBytes(_)
AsBytes(p) == IF p = <<>> THEN <<>> ELSE Utf8(Head(p)) \o AsBytes(Tail(p))

\* validate_phrase that looks at the first byte only.
ValidatePhrasePanicsOnFirst(p) ==
    LET bytes == AsBytes(p)
    IN \E i \in 1..(IF Len(p) > 0 THEN 1 ELSE 0) : bytes[i] >= 128

\* validate_phrase panics: the characters zipped with the bytes hold a byte
\* of 128 or more. The zip ends with the shorter of the two, the characters.
ValidatePhrasePanics(p) ==
    LET bytes == AsBytes(p)
    IN \E i \in 1..(IF Len(p) < Len(bytes) THEN Len(p) ELSE Len(bytes)) :
          bytes[i] >= 128

\* Terminal events, as crossterm's read returns them; a failed read is the
\* event "Error".
KeyEvent(code, ch, modifiers, kind) ==
    [event |-> "Key", code |-> code, ch |-> ch, modifiers |-> modifiers, kind |-> kind]

KeyChar(c) == KeyEvent("Char", c, "NONE", "Press")

KeyCtrlQ == KeyEvent("Char", 113, "CONTROL", "Press")

KeyEnter == KeyEvent("Enter", 0, "NONE", "Press")

KeyEsc == KeyEvent("Esc", 0, "NONE", "Press")

KeyRelease == KeyEvent("Char", 97, "NONE", "Release")

Resize == [event |-> "Resize", code |-> "", ch |-> 0, modifiers |-> "NONE", kind |-> ""]

ReadError == [event |-> "Error", code |-> "", ch |-> 0, modifiers |-> "NONE", kind |-> ""]

\* GuessEvent::next yields the event (TRUE) or ends the iteration (FALSE).
GuessEventNext(e) ==
    IF e.event # "Error"
    THEN IF e.event = "Key" /\ e.kind = "Press"
         THEN IF e.code = "Char" /\ e.ch = 113 /\ e.modifiers = "CONTROL" THEN FALSE
              ELSE IF e.code = "Char" THEN TRUE
              ELSE IF e.code = "Enter" THEN FALSE
              ELSE FALSE
         ELSE FALSE
    ELSE FALSE

\* read_guess: the characters of the events the iterator yields, up to the
\* event that ends it.
RECURSIVE ReadGuessFrom(_, _)
ReadGuessFrom(es, i) ==
    IF i > Len(es) THEN <<>>
    ELSE IF GuessEventNext(es[i])
    THEN (IF es[i].event = "Key" /\ es[i].code = "Char" THEN <<es[i].ch>> ELSE <<>>)
            \o ReadGuessFrom(es, i + 1)
    ELSE <<>>

ReadGuess(es) == ReadGuessFrom(es, 1)

\* A failed terminal write after which play goes on with the same step.
Retried(step) == step

\* `?` on a failed terminal write: play returns the error from the step it
\* was in.
Propagated(step) == "failed"

RECURSIVE HiddenFrom(_, _, _)
HiddenFrom(p, gs, i) ==
    IF i > Len(p) THEN <<>>
    ELSE LET c == p[i]
             lower == Lowercase(c)
             shown == IF IsAlphaUtf(c)
                      THEN IF lower.ok
                           THEN IF Contains(gs, lower.ch)
                                THEN <<c>>
                                ELSE <<Underscore>>
                           ELSE <<>>
                      ELSE <<c>>
         IN shown \o HiddenFrom(p, gs, i + 1)

ConstructHiddenPhrase(p, gs) == HiddenFrom(p, gs, 1)

\* The branch issue_goodbye takes.
Goodbye(l) == IF l > 0 THEN "won" ELSE "lost"

\* ------------------------------------------------------------ the board

\* Draw commands are tuples: <<"Clear">>, <<"EnterAlternateScreen">>,
\* <<"MoveTo", col, row>>, <<"Print", literal>> for a string literal of the
\* source and <<"PrintChars", s>> for a string the game builds, s being its
\* code points. The operators named after a function of the source are the
\* sequence of commands that function queues.

PROMPT_LOCATION == [row |-> 2, col |-> 1]

PHRASE_LOCATION == [row |-> 4, col |-> 1]

GUESS_LOCATION == [row |-> 8, col |-> 1]

FAREWELL_LOCATION == [row |-> 10, col |-> 1]

\* GALLOWS.lines(): the literal starts with a line break, so its first line
\* is empty.
GALLOWS ==
    <<"", "  +---+", "  |   |", "  |", "  |", "  |", "  |", "==========">>

WonMessage == "Congratulations, you won Rusty Hangman!"

LostMessage == "You were not able to figure out the secret phrase :(\n"

ThanksMessage == "\r\nThank you for playing Rusty Hangman.\n"

Clear == <<"Clear">>

MoveTo(col, row) == <<"MoveTo", col, row>>

BoardPrint(string) == <<"Print", string>>

BoardPrintChars(s) == <<"PrintChars", s>>

ClearScreen == <<Clear>>

ResetCaret == <<MoveTo(0, 0)>>

EnterAlternateScreen == << <<"EnterAlternateScreen">> >>

\* The loop over the lines of GALLOWS, row i for line i counted from 0.
PrintGallows(padding) ==
    << MoveTo(padding + 3, 0), BoardPrint(GALLOWS[1]),
       MoveTo(padding + 3, 1), BoardPrint(GALLOWS[2]),
       MoveTo(padding + 3, 2), BoardPrint(GALLOWS[3]),
       MoveTo(padding + 3, 3), BoardPrint(GALLOWS[4]),
       MoveTo(padding + 3, 4), BoardPrint(GALLOWS[5]),
       MoveTo(padding + 3, 5), BoardPrint(GALLOWS[6]),
       MoveTo(padding + 3, 6), BoardPrint(GALLOWS[7]),
       MoveTo(padding + 3, 7), BoardPrint(GALLOWS[8]) >>

PrintHead(padding) == <<MoveTo(padding + 9, 3), BoardPrint("O")>>

PrintTorso(padding) == <<MoveTo(padding + 9, 4), BoardPrint("|")>>

PrintLeftArm(padding) == <<MoveTo(padding + 8, 4), BoardPrint("/")>>

PrintRightArm(padding) == <<MoveTo(padding + 10, 4), BoardPrint("\\")>>

PrintLeftLeg(padding) == <<MoveTo(padding + 8, 5), BoardPrint("/")>>

PrintRightLeg(padding) == <<MoveTo(padding + 10, 5), BoardPrint("\\")>>

\* print_body that draws the right arm one life too early.
PrintBodyEarlyArm(l, padding) ==
    IF l = 6 THEN <<>>
    ELSE (IF l <= 5 THEN PrintHead(padding) ELSE <<>>)
         \o (IF l <= 4 THEN PrintTorso(padding) ELSE <<>>)
         \o (IF l <= 3 THEN PrintLeftArm(padding) ELSE <<>>)
         \o (IF l <= 3 THEN PrintRightArm(padding) ELSE <<>>)
         \o (IF l <= 1 THEN PrintLeftLeg(padding) ELSE <<>>)
         \o (IF l = 0 THEN PrintRightLeg(padding) ELSE <<>>)

PrintBody(l, padding) ==
    IF l = 6 THEN <<>>
    ELSE (IF l <= 5 THEN PrintHead(padding) ELSE <<>>)
         \o (IF l <= 4 THEN PrintTorso(padding) ELSE <<>>)
         \o (IF l <= 3 THEN PrintLeftArm(padding) ELSE <<>>)
         \o (IF l <= 2 THEN PrintRightArm(padding) ELSE <<>>)
         \o (IF l <= 1 THEN PrintLeftLeg(padding) ELSE <<>>)
         \o (IF l = 0 THEN PrintRightLeg(padding) ELSE <<>>)

\* The guesses joined with ", " (code points 44 and 32).
RECURSIVE JoinFrom(_, _)
JoinFrom(gs, i) ==
    IF i > Len(gs) THEN <<>>
    ELSE (IF i > 1 THEN <<44, 32>> ELSE <<>>) \o <<gs[i]>> \o JoinFrom(gs, i + 1)

PrintGuessList(gs) ==
    << MoveTo(GUESS_LOCATION.col, GUESS_LOCATION.row),
       BoardPrint("Guesses"),
       MoveTo(GUESS_LOCATION.col + 1, GUESS_LOCATION.row + 1),
       BoardPrintChars(JoinFrom(gs, 1)) >>

IssueHiddenPhrase(p, gs) ==
    << MoveTo(PHRASE_LOCATION.col, PHRASE_LOCATION.row),
       BoardPrintChars(ConstructHiddenPhrase(p, gs)) >>

PromptGuess ==
    << MoveTo(PROMPT_LOCATION.col, PROMPT_LOCATION.row),
       BoardPrint("Guess: "),
       MoveTo(PROMPT_LOCATION.col + 7, PROMPT_LOCATION.row) >>

\* What GameBoard::initialize queues before its flush.
InitializeCommands == EnterAlternateScreen \o ClearScreen \o ResetCaret

\* What one pass of the loop body queues before its flush, in the order of
\* the calls. The board's padding is the length of the phrase.
FrameCommands(p, l, gs) ==
    ClearScreen
       \o ResetCaret
       \o PrintGallows(Len(p))
       \o PrintBody(l, Len(p))
       \o PrintGuessList(gs)
       \o IssueHiddenPhrase(p, gs)
       \o PromptGuess

\* What issue_goodbye queues after its flush of the final view.
FarewellCommands(p, l) ==
    IF l > 0
    THEN << MoveTo(FAREWELL_LOCATION.col, FAREWELL_LOCATION.row),
            BoardPrint(WonMessage) >>
    ELSE PrintBody(l, Len(p))
            \o << MoveTo(PHRASE_LOCATION.col, PHRASE_LOCATION.row),
                  BoardPrintChars(p),
                  MoveTo(FAREWELL_LOCATION.col, FAREWELL_LOCATION.row),
                  BoardPrint(LostMessage),
                  BoardPrint(ThanksMessage) >>

\* execute that flushes nothing.
ExecuteKeepsQueue(queued) == queued

\* execute: stdout is flushed, nothing stays queued.
Execute(queued) == <<>>

\* ----------------------------------------------------------------- inputs

RECURSIVE SeqsUpTo(_, _)
SeqsUpTo(S, n) ==
    IF n = 0 THEN {<<>>}
    ELSE LET shorter == SeqsUpTo(S, n - 1)
         IN shorter \cup {Append(s, x) : s \in shorter, x \in S}

Phrases == {p \in SeqsUpTo(PhraseChars, MaxPhraseLen) : ValidPhrase(p)}

\* What read_guess can return: nothing, or the characters typed.
GuessInputs == {<<>>} \cup {<<k>> : k \in Keys}

\* The phrases the command line can hand to HangmanGame::new.
RawPhrases == SeqsUpTo(RawPhraseChars, MaxPhraseLen)

\* The events that end a round's input: Enter, Ctrl+q, another key, a key
\* release, an event that is no key event, and a failed read.
EndEvents == {KeyEnter, KeyCtrlQ, KeyEsc, KeyRelease, Resize, ReadError}

\* The key events of one round: the characters typed, then the event that
\* ends the input.
KeyScripts ==
    {Append(typed, e) :
        typed \in SeqsUpTo({KeyChar(c) : c \in TypedChars}, MaxTyped),
        e \in EndEvents}

\* ---------------------------------------------------------------- actions

Init ==
    /\ phrase \in Phrases
    /\ lives = InitialLives
    /\ guesses = <<>>
    /\ should_quit = FALSE
    /\ guess = <<>>
    /\ pc = "loop"
    /\ farewell = "none"
    /\ queue = Execute(InitializeCommands)
    /\ events = <<>>
    /\ result = "running"

\* The test of the while loop. The previous iteration is over: its local
\* `guess` is gone, and so are the key events it consumed.
LoopTest ==
    /\ pc = "loop"
    /\ guess' = <<>>
    /\ events' = <<>>
    /\ pc' = IF should_quit THEN "goodbye" ELSE "render"
    /\ UNCHANGED <<phrase, lives, guesses, should_quit, farewell, queue, result>>

\* The loop body up to its flush: the frame is queued.
Render ==
    /\ pc = "render"
    /\ queue' = queue \o FrameCommands(phrase, lives, guesses)
    /\ pc' = "execute"
    /\ UNCHANGED <<phrase, lives, guesses, should_quit, guess, farewell,
                 events, result>>

\* GameBoard::execute at the end of the frame; the game then blocks in
\* read_guess.
ExecuteFrame ==
    /\ pc = "execute"
    /\ queue' = Execute(queue)
    /\ pc' = "read"
    /\ UNCHANGED <<phrase, lives, guesses, should_quit, guess, farewell,
                 events, result>>

IssueCorrectGuess(gs) ==
    should_quit' = IF ConstructHiddenPhrase(phrase, gs) = phrase
                   THEN TRUE
                   ELSE should_quit

\* add_guess without its duplicate check.
AddGuessNoDuplicateCheck(g) ==
    /\ guesses' = Append(guesses, g)
    /\ IF Contains(phrase, g)
       THEN /\ IssueCorrectGuess(guesses')
            /\ lives' = lives
       ELSE /\ lives' = (lives + 255) % 256
            /\ should_quit' = IF lives' = 0 THEN TRUE ELSE should_quit

\* add_guess that puts a new guess in front of the others.
AddGuessAtFront(g) ==
    IF Contains(guesses, g)
    THEN UNCHANGED <<guesses, lives, should_quit>>
    ELSE /\ guesses' = <<g>> \o guesses
         /\ IF Contains(phrase, g)
            THEN /\ IssueCorrectGuess(guesses')
                 /\ lives' = lives
            ELSE /\ lives' = (lives + 255) % 256
                 /\ should_quit' = IF lives' = 0 THEN TRUE ELSE should_quit

\* `self.lives -= 1` on a u8: the model keeps the width (a release build
\* wraps); the loop never evaluates a guess with lives = 0.
AddGuess(g) ==
    IF Contains(guesses, g)
    THEN UNCHANGED <<guesses, lives, should_quit>>
    ELSE /\ guesses' = Append(guesses, g)
         /\ IF Contains(phrase, g)
            THEN /\ IssueCorrectGuess(guesses')
                 /\ lives' = lives
            ELSE /\ lives' = (lives + 255) % 256
                 /\ should_quit' = IF lives' = 0 THEN TRUE ELSE should_quit

UpdateGuesses(c) ==
    IF Lowercase(c).ok
    THEN AddGuess(Lowercase(c).ch)
    ELSE UNCHANGED <<guesses, lives, should_quit>>

\* evaluate_guess that takes the last character of the input.
EvaluateGuessLast(g) ==
    IF Len(g) > 0
    THEN UpdateGuesses(g[Len(g)])
    ELSE UNCHANGED <<guesses, lives, should_quit>>

EvaluateGuess(g) ==
    IF Len(g) > 0
    THEN UpdateGuesses(g[1])
    ELSE UNCHANGED <<guesses, lives, should_quit>>

\* The rest of the loop body: the game blocks in read_guess for the player's
\* input and evaluates what was read.
ReadAndEvaluate ==
    /\ pc = "read"
    /\ \E g \in GuessInputs :
          /\ guess' = g
          /\ EvaluateGuess(g)
    /\ pc' = "loop"
    /\ UNCHANGED <<phrase, farewell, queue, events, result>>

\* The first call of issue_goodbye: the final view is queued.
IssueFinalView ==
    /\ pc = "goodbye"
    /\ queue' = queue \o IssueHiddenPhrase(phrase, guesses)
    /\ pc' = "farewell"
    /\ UNCHANGED <<phrase, lives, guesses, should_quit, guess, farewell,
                 events, result>>

\* The rest of issue_goodbye: the final view is flushed, then the farewell of
\* the branch taken is queued.
IssueGoodbye ==
    /\ pc = "farewell"
    /\ queue' = Execute(queue) \o FarewellCommands(phrase, lives)
    /\ pc' = "terminate"
    /\ UNCHANGED <<phrase, lives, guesses, should_quit, guess, farewell,
                 events, result>>

\* GameBoard::terminate: the farewell reaches the terminal and play returns
\* Ok.
Terminate ==
    /\ pc = "terminate"
    /\ queue' = Execute(queue)
    /\ farewell' = Goodbye(lives)
    /\ result' = "Ok"
    /\ pc' = "done"
    /\ UNCHANGED <<phrase, lives, guesses, should_quit, guess, events>>

Next ==
    \/ LoopTest
    \/ Render
    \/ ExecuteFrame
    \/ ReadAndEvaluate
    \/ IssueFinalView
    \/ IssueGoodbye
    \/ Terminate

Spec == Init /\ [][Next]_vars

\* ------------------------------------------------- the whole alphabet
\* The game with a player who submits the letters a to z one after the
\* other, upwards from a or downwards from z, and goes on submitting a
\* letter when none is left.

\* The letters a to u followed by a capital V.
LowerAToUThenCapitalV == [i \in 1..21 |-> 96 + i] \o <<86>>

\* The phrases of these games: the empty phrase, "ox", "a to u, V" and the
\* lowercase alphabet.
AlphabetPhrases ==
    {<<>>, <<111, 120>>, LowerAToUThenCapitalV, [i \in 1..26 |-> 96 + i]}

\* The letter the player submits next.
NextLetters ==
    IF guesses = <<>> THEN {97, 122}
    ELSE IF Len(guesses) >= Cardinality(LOWERCASE) THEN {guesses[1]}
    ELSE IF guesses[1] = 97 THEN {97 + Len(guesses)}
    ELSE {122 - Len(guesses)}

InitAlphabet ==
    /\ phrase \in AlphabetPhrases
    /\ lives = InitialLives
    /\ guesses = <<>>
    /\ should_quit = FALSE
    /\ guess = <<>>
    /\ pc = "loop"
    /\ farewell = "none"
    /\ queue = Execute(InitializeCommands)
    /\ events = <<>>
    /\ result = "running"

\* read_guess returns the letter the player submits, evaluate_guess
\* evaluates it.
ReadLetterAndEvaluate ==
    /\ pc = "read"
    /\ \E g \in NextLetters :
          /\ guess' = <<g>>
          /\ EvaluateGuess(<<g>>)
    /\ pc' = "loop"
    /\ UNCHANGED <<phrase, farewell, queue, events, result>>

NextAlphabet ==
    \/ LoopTest
    \/ Render
    \/ ExecuteFrame
    \/ ReadLetterAndEvaluate
    \/ IssueFinalView
    \/ IssueGoodbye
    \/ Terminate

AlphabetSpec == InitAlphabet /\ [][NextAlphabet]_vars

\* ------------------------------------------------------------ the session
\* The session from the call of HangmanGame::new on, with the key events of
\* each round and with terminal writes that can fail.

\* Before construction no game exists: its fields hold no value yet.
InitSession ==
    /\ phrase \in RawPhrases
    /\ lives = 0
    /\ guesses = <<>>
    /\ should_quit = FALSE
    /\ guess = <<>>
    /\ pc = "new"
    /\ farewell = "none"
    /\ queue = <<>>
    /\ events = <<>>
    /\ result = "running"

\* HangmanGame::new: the phrase is validated, then the game is built.
New ==
    /\ pc = "new"
    /\ IF ValidatePhrasePanics(phrase)
       THEN /\ pc' = "panic"
            /\ UNCHANGED <<lives, guesses, should_quit>>
       ELSE /\ pc' = "initialize"
            /\ lives' = InitialLives
            /\ guesses' = <<>>
            /\ should_quit' = FALSE
    /\ UNCHANGED <<phrase, guess, farewell, queue, events, result>>

\* GameBoard::initialize at the start of play.
Initialize ==
    /\ pc = "initialize"
    /\ queue' = Execute(queue \o InitializeCommands)
    /\ pc' = "loop"
    /\ UNCHANGED <<phrase, lives, guesses, should_quit, guess, farewell,
                 events, result>>

\* read_guess consumes the key events of the round, evaluate_guess evaluates
\* what it collected.
ReadKeysAndEvaluate ==
    /\ pc = "read"
    /\ \E es \in KeyScripts :
          /\ events' = es
          /\ guess' = ReadGuess(es)
          /\ EvaluateGuess(ReadGuess(es))
    /\ pc' = "loop"
    /\ UNCHANGED <<phrase, farewell, queue, result>>

\* The commands of cmds queued before the one that fails.
QueuedBeforeFailure(cmds) == {SubSeq(cmds, 1, k) : k \in 0..(Len(cmds) - 1)}

\* What a failed flush leaves in the buffer: all of it, or an end of it.
LeftByFailedFlush(queued) == {SubSeq(queued, k, Len(queued)) : k \in 1..Len(queued)}

\* The buffer after a failed terminal write of the step the session is in.
QueuesAtFailure ==
    CASE pc = "initialize" ->
            {queue \o q : q \in QueuedBeforeFailure(InitializeCommands)}
               \cup LeftByFailedFlush(queue \o InitializeCommands)
               \cup {Execute(queue \o InitializeCommands)}
      [] pc = "render" ->
            {queue \o q : q \in QueuedBeforeFailure(FrameCommands(phrase, lives, guesses))}
      [] pc = "execute" -> LeftByFailedFlush(queue)
      [] pc = "goodbye" ->
            {queue \o q : q \in QueuedBeforeFailure(IssueHiddenPhrase(phrase, guesses))}
      [] pc = "farewell" ->
            LeftByFailedFlush(queue)
               \cup {Execute(queue) \o q : q \in QueuedBeforeFailure(FarewellCommands(phrase, lives))}
      [] pc = "terminate" -> LeftByFailedFlush(queue)
      [] OTHER -> {}

\* A queue_command, an execute or the size query of the current step fails:
\* `?` returns the error from play.
WriteFails ==
    /\ queue' \in QueuesAtFailure
    /\ pc' = Propagated(pc)
    /\ result' = "Err"
    /\ UNCHANGED <<phrase, lives, guesses, should_quit, guess, farewell, events>>

NextSession ==
    \/ New
    \/ Initialize
    \/ LoopTest
    \/ Render
    \/ ExecuteFrame
    \/ ReadKeysAndEvaluate
    \/ IssueFinalView
    \/ IssueGoodbye
    \/ Terminate
    \/ WriteFails

SessionSpec == InitSession /\ [][NextSession]_vars

\* ------------------------------------------------- vocabulary of the claims

\* An ASCII letter, [A-Za-z].
IsLetter(c) == (c >= 65 /\ c <= 90) \/ (c >= 97 /\ c <= 122)

\* The lowercase form of an ASCII letter; any other character is itself.
FoldLower(c) == IF c >= 65 /\ c <= 90 THEN c + 32 ELSE c

\* The uppercase form of an ASCII letter; any other character is itself.
FoldUpper(c) == IF c >= 97 /\ c <= 122 THEN c - 32 ELSE c

\* c is in GuessSet.
Recorded(c) == \E i \in 1..Len(guesses) : guesses[i] = c

\* The phrase holds c in its lowercase or its uppercase form.
InPhraseAnyCase(c) ==
    \E i \in 1..Len(phrase) : phrase[i] = FoldLower(c) \/ phrase[i] = FoldUpper(c)

\* The view the game shows, as construct_hidden_phrase computes it.
View == ConstructHiddenPhrase(phrase, guesses)

\* A step that reads and evaluates a guess, and one that was handed a
\* character; Typed is the character handed to the guess tracker.
EvalStep == pc = "read" /\ pc' = "loop"

TypedStep == EvalStep /\ Len(guess') > 0

Typed == guess'[1]

\* The evaluated character is a letter whose lowercase form is not yet recorded.
NewLetterStep == TypedStep /\ IsLetter(Typed) /\ ~Recorded(FoldLower(Typed))

\* The terminal state of the game, as play and issue_goodbye decide it.
Won == should_quit /\ Goodbye(lives) = "won"

Lost == should_quit /\ Goodbye(lives) = "lost"

\* Letters of GuessSet that occur in the phrase in neither case.
NumIncorrect ==
    Cardinality({i \in 1..Len(guesses) : ~InPhraseAnyCase(guesses[i])})

\* ----------------------------------------------------------------- claims

\* C1: a new letter guess whose lowercase or uppercase form occurs in the
\* phrase loses no life; a new letter guess loses exactly one life only when
\* the phrase holds the letter in neither case.
C1_CaseInsensitiveCorrectness ==
    [][NewLetterStep =>
          lives' = IF InPhraseAnyCase(Typed) THEN lives ELSE lives - 1]_vars

\* C2: in every state that follows the evaluation of a recorded guess, the
\* game is Won with the quit flag set if and only if the hidden phrase view
\* equals the phrase.
C2_WinIffViewEqualsPhrase ==
    (pc = "loop" /\ guesses # <<>>) => (Won <=> View = phrase)

\* C3: a guess that both reveals the last masked position of the phrase and
\* takes lives to 0 ends the game as a Win.
C3_TieBreakIsWin ==
    [][(EvalStep /\ View # phrase /\ View' = phrase /\ lives # 0 /\ lives' = 0)
          => Won']_vars

\* C4: lives stays within 0..6 and never increases; an evaluation changes it
\* by 0 or by -1, by -1 exactly when the guess is a new letter that occurs in
\* the phrase in neither case.
C4_LivesAccounting ==
    [][EvalStep =>
          /\ lives \in 0..InitialLives
          /\ lives' \in {lives, lives - 1}
          /\ lives' >= 0
          /\ (lives' = lives - 1) <=>
                (NewLetterStep /\ ~InPhraseAnyCase(Typed))]_vars

\* C5: evaluating a character whose lowercase form is already in GuessSet
\* leaves lives, GuessSet and the quit flag unchanged.
C5_DuplicateIdempotent ==
    [][(TypedStep /\ Recorded(FoldLower(Typed)))
          => UNCHANGED <<lives, guesses, should_quit>>]_vars

\* An uppercase A was evaluated after a had been recorded ahead of another
\* guess: the evaluation was of a duplicate.
C5_Witness ==
    /\ pc = "loop"
    /\ guess = <<65>>
    /\ Len(guesses) >= 2
    /\ guesses[1] = 97

\* C6: evaluating a digit, a symbol or whitespace leaves GuessSet, lives and
\* the quit flag unchanged.
C6_NonLetterDiscarded ==
    [][(TypedStep /\ Typed \in KeyDigits \cup KeySymbols \cup KeySpaces)
          => UNCHANGED <<lives, guesses, should_quit>>]_vars

\* C7: every member of GuessSet is a lowercase ASCII letter in [a-z].
C7_GuessSetLowercaseAscii ==
    \A i \in 1..Len(guesses) : guesses[i] >= 97 /\ guesses[i] <= 122

\* The view has the length of the phrase and masks exactly the letters whose
\* lowercase form is not recorded.
ViewMasksUnguessed ==
    LET v == View
    IN /\ Len(v) = Len(phrase)
       /\ \A i \in 1..Len(phrase) :
             v[i] = IF IsLetter(phrase[i]) /\ ~Recorded(FoldLower(phrase[i]))
                    THEN 95
                    ELSE phrase[i]

\* A new letter of the phrase newly reveals the positions that hold it in
\* either case, and no other position changes.
RevealsExactlyTheLetter ==
    (NewLetterStep /\ InPhraseAnyCase(Typed)) =>
        LET before == View
            after == ConstructHiddenPhrase(phrase', guesses')
        IN /\ Len(after) = Len(before)
           /\ \A i \in 1..Len(phrase) :
                 IF phrase[i] = FoldLower(Typed) \/ phrase[i] = FoldUpper(Typed)
                 THEN before[i] = 95 /\ after[i] = phrase[i]
                 ELSE after[i] = before[i]

\* C8: the hidden phrase view has the length of the phrase, shows a letter
\* iff its lowercase form is in GuessSet ('_' otherwise) and every other
\* character unmasked; guessing a letter of the phrase newly reveals exactly
\* the positions holding it in either case.
C8_HiddenPhraseView ==
    []ViewMasksUnguessed /\ [][RevealsExactlyTheLetter]_vars

\* With phrase "ab", a was guessed and evaluated: the view is "a_".
C8_Witness ==
    /\ pc = "loop"
    /\ phrase = <<97, 98>>
    /\ guess = <<97>>
    /\ guesses = <<97>>
    /\ View = <<97, 95>>

\* C9: a recorded guess either costs a life and leaves the view unchanged,
\* or changes the view and leaves lives unchanged.
C9_LifeOrReveal ==
    [][(EvalStep /\ guesses' # guesses) =>
          \/ (lives' = lives - 1 /\ View' = View)
          \/ (lives' = lives /\ View' # View)]_vars

\* An evaluation starts with lives above 0; the one that takes lives to 0
\* sets the quit flag and records the sixth incorrect letter.
LossOnSixthIncorrect ==
    EvalStep => /\ (lives # 0 /\ lives' = 0) => (should_quit' /\ NumIncorrect' = 6)
                /\ lives > 0

\* C10: the step that takes lives to 0 sets the quit flag and is the guess
\* of the sixth distinct incorrect letter; no guess is evaluated with lives
\* at 0, and the game does not end as Lost while lives > 0.
C10_Loss ==
    [][LossOnSixthIncorrect /\ (farewell' = "lost" => lives' = 0)]_vars

\* The body parts in the order the spec draws them, with the column (counted
\* from the board's padding), the row and the glyph of each.
BodyParts ==
    << [part |-> "head",      dcol |-> 9,  row |-> 3, glyph |-> "O"],
       [part |-> "torso",     dcol |-> 9,  row |-> 4, glyph |-> "|"],
       [part |-> "left arm",  dcol |-> 8,  row |-> 4, glyph |-> "/"],
       [part |-> "right arm", dcol |-> 10, row |-> 4, glyph |-> "\\"],
       [part |-> "left leg",  dcol |-> 8,  row |-> 5, glyph |-> "/"],
       [part |-> "right leg", dcol |-> 10, row |-> 5, glyph |-> "\\"] >>

\* Part k is drawn by a sequence of draw commands: a cursor move to the
\* part's position is followed by the print of its glyph.
DrawsPart(cmds, k) ==
    \E i \in 1..(Len(cmds) - 1) :
        /\ cmds[i] = MoveTo(Len(phrase) + BodyParts[k].dcol, BodyParts[k].row)
        /\ cmds[i + 1] = BoardPrint(BodyParts[k].glyph)

\* The body parts a sequence of draw commands draws.
PartsDrawn(cmds) == {k \in 1..Len(BodyParts) : DrawsPart(cmds, k)}

\* A state in which a body has just been queued: by the frame of a loop
\* iteration, or by the farewell of a lost game.
BodyQueued == pc = "execute" \/ (pc = "terminate" /\ lives = 0)

\* C11: whenever the body is drawn, the parts drawn are exactly the first
\* 6 - lives of head, torso, left arm, right arm, left leg, right leg, in
\* that order: none at 6 lives, all six at 0, and the parts drawn at n lives
\* are among those drawn at n - 1.
C11_BodyIsFirstParts ==
    BodyQueued =>
        /\ PartsDrawn(queue) = 1..(InitialLives - lives)
        /\ lives > 0 =>
              PartsDrawn(queue) \subseteq PartsDrawn(PrintBody(lives - 1, Len(phrase)))

\* A frame was queued with three lives left: head, torso and left arm.
C11_Witness ==
    /\ pc = "execute"
    /\ lives = 3
    /\ PartsDrawn(queue) = {1, 2, 3}

\* The places of a draw command in a sequence of draw commands.
Indexes(cmds, cmd) == {i \in 1..Len(cmds) : cmds[i] = cmd}

\* The places where a line of the gallows is printed.
GallowsIndexes(cmds) ==
    {i \in 1..Len(cmds) :
        cmds[i][1] = "Print" /\ \E r \in 1..Len(GALLOWS) : cmds[i][2] = GALLOWS[r]}

\* The places where a body part is printed.
BodyIndexes(cmds) ==
    {i \in 2..Len(cmds) :
        \E k \in 1..Len(BodyParts) :
            /\ cmds[i - 1] = MoveTo(Len(phrase) + BodyParts[k].dcol, BodyParts[k].row)
            /\ cmds[i] = BoardPrint(BodyParts[k].glyph)}

\* The places where the hidden phrase view is printed at the phrase line.
ViewIndexes(cmds) ==
    {i \in 2..Len(cmds) :
        /\ cmds[i - 1] = MoveTo(PHRASE_LOCATION.col, PHRASE_LOCATION.row)
        /\ cmds[i] = BoardPrintChars(View)}

\* Every place of the first set comes before every place of the second.
Before(I, J) == \A i \in I : \A j \in J : i < j

\* A frame: clear screen, reset cursor, gallows, body, guess list, hidden
\* phrase and prompt, in that order.
FrameInOrder(cmds) ==
    LET clear == Indexes(cmds, Clear)
        reset == Indexes(cmds, MoveTo(0, 0))
        gallows == GallowsIndexes(cmds)
        body == BodyIndexes(cmds)
        list == Indexes(cmds, BoardPrint("Guesses"))
        view == ViewIndexes(cmds)
        prompt == Indexes(cmds, BoardPrint("Guess: "))
    IN /\ clear = {1}
       /\ reset = {2}
       /\ Cardinality(gallows) = Len(GALLOWS)
       /\ Cardinality(body) = InitialLives - lives
       /\ Cardinality(list) = 1
       /\ Cardinality(view) = 1
       /\ Cardinality(prompt) = 1
       /\ Before(reset, gallows)
       /\ Before(gallows, body)
       /\ Before(gallows \cup body, list)
       /\ Before(list, view)
       /\ Before(view, prompt)

\* The frame is queued in order, and nothing is queued while the game awaits
\* the guess or after it has evaluated it.
FrameThenNothingQueued ==
    /\ pc = "execute" => FrameInOrder(queue)
    /\ pc \in {"read", "loop", "render"} => queue = <<>>

\* The game starts to await input only by flushing a queued frame.
AwaitsAfterFlush ==
    pc' = "read" => (pc = "execute" /\ queue # <<>> /\ queue' = <<>>)

\* C12: every loop iteration queues clear screen, reset cursor, gallows and
\* body, guess list, hidden phrase and prompt in that order and flushes them
\* before it blocks for input; while input is awaited nothing is queued
\* unflushed, and no draw command of the next frame is queued before the
\* guess has been evaluated.
C12_FrameFlushedBeforeInput ==
    []FrameThenNothingQueued /\ [][AwaitsAfterFlush]_vars

\* The game awaits input in a later iteration, two lives down, with nothing
\* queued.
C12_Witness ==
    /\ pc = "read"
    /\ queue = <<>>
    /\ lives = 4
    /\ Len(guesses) = 3

\* The success message is queued at the farewell line, and the failure
\* message likewise.
SuccessShown(cmds) ==
    \E i \in 2..Len(cmds) :
        /\ cmds[i - 1] = MoveTo(FAREWELL_LOCATION.col, FAREWELL_LOCATION.row)
        /\ cmds[i] = BoardPrint(WonMessage)

FailureShown(cmds) ==
    \E i \in 2..Len(cmds) :
        /\ cmds[i - 1] = MoveTo(FAREWELL_LOCATION.col, FAREWELL_LOCATION.row)
        /\ cmds[i] = BoardPrint(LostMessage)

\* The full phrase is printed at the phrase line.
PhraseRevealed(cmds) ==
    \E i \in 2..Len(cmds) :
        /\ cmds[i - 1] = MoveTo(PHRASE_LOCATION.col, PHRASE_LOCATION.row)
        /\ cmds[i] = BoardPrintChars(phrase)

\* C13: on termination the final view is redrawn and exactly one farewell
\* is queued: the success message when the game ended Won (the view equals
\* the phrase), otherwise the failure message; with the failure message the
\* full phrase is revealed at the phrase line and all six body parts drawn.
C13_OneFarewellByTerminalState ==
    /\ pc = "farewell" => ViewIndexes(queue) = {Len(queue)}
    /\ pc = "terminate" =>
          /\ SuccessShown(queue) # FailureShown(queue)
          /\ SuccessShown(queue) <=> View = phrase
          /\ FailureShown(queue) =>
                (lives = 0 /\ PhraseRevealed(queue) /\ PartsDrawn(queue) = 1..Len(BodyParts))

\* No member of GuessSet occurs twice.
NoDuplicateGuess ==
    \A i, j \in 1..Len(guesses) : guesses[i] = guesses[j] => i = j

\* A step leaves GuessSet unchanged or appends one member that was not
\* present; only the evaluation of a guess changes it.
AppendsOneNewGuess ==
    \/ guesses' = guesses
    \/ /\ EvalStep
       /\ Len(guesses') = Len(guesses) + 1
       /\ SubSeq(guesses', 1, Len(guesses)) = guesses
       /\ ~Recorded(guesses'[Len(guesses')])

\* C15: GuessSet is append-only and duplicate-free: each guess evaluation
\* leaves it unchanged or appends exactly one member that was not present,
\* so the earlier GuessSet is a prefix of the later one and no member occurs
\* twice.
C15_GuessSetAppendOnly ==
    []NoDuplicateGuess /\ [][AppendsOneNewGuess]_vars

\* A third guess was appended behind two earlier ones.
C15_Witness ==
    /\ pc = "loop"
    /\ guess = <<101>>
    /\ guesses = <<98, 97, 101>>

\* C20: in every reachable state lives plus the number of members of
\* GuessSet that occur in the phrase in neither case is 6, and a queued
\* frame draws as many body parts as the guess list holds such members.
C20_LivesPlusIncorrectIsSix ==
    /\ lives + NumIncorrect = InitialLives
    /\ pc = "execute" => Cardinality(PartsDrawn(queue)) = NumIncorrect

\* A round whose key events the session consumed one by one, the event that
\* ended its input, and the characters typed before that event.
KeyRound == EvalStep /\ events' # <<>>

EndEvent == events'[Len(events')]

TypedBefore == [i \in 1..(Len(events') - 1) |-> events'[i].ch]

\* play has returned an error only from the failed step, with no farewell
\* shown.
ErrEndsSession == result = "Err" => (pc = "failed" /\ farewell = "none")

\* C14 as stated: any I/O failure, a failed write or a failed read of a key
\* event, makes play return the error and ends the session: nothing is
\* retried, no further iteration runs and no farewell is shown.
C14_AnyIoFailureEndsSession ==
    /\ []ErrEndsSession
    /\ [][/\ result # "Err"
          /\ (KeyRound /\ EndEvent = ReadError) =>
                (result' = "Err" /\ pc' = "failed")]_vars

\* C14, amended: a failed terminal write makes play return the error and
\* ends the session: nothing is retried, no further iteration runs and no
\* farewell is shown. A failed read of a key event does not: it ends the
\* round's input, the characters read before it are evaluated and the loop
\* goes on.
C14_WriteFailureEndsSession ==
    /\ []ErrEndsSession
    /\ [][/\ result # "Err"
          /\ (KeyRound /\ EndEvent = ReadError) =>
                (result' = "running" /\ pc' = "loop" /\ guess' = TypedBefore)]_vars

\* A write failed in the second iteration, after a was guessed.
C14_Witness ==
    /\ pc = "failed"
    /\ result = "Err"
    /\ guesses = <<97>>
    /\ queue # <<>>
    /\ farewell = "none"

\* The first character alone decides what the evaluation does.
FirstCharacterDecides ==
    EvalStep =>
        IF guess' = <<>>
        THEN UNCHANGED <<guesses, lives, should_quit>>
        ELSE IF IsLetter(Typed) /\ ~Recorded(FoldLower(Typed))
        THEN guesses' = Append(guesses, FoldLower(Typed))
        ELSE UNCHANGED <<guesses, lives, should_quit>>

\* C16: of the characters collected in a round only the first is handed to
\* the guess tracker, the later ones are ignored, and an empty input changes
\* nothing.
C16_OnlyFirstCharacter == [][FirstCharacterDecides]_vars

\* q and a were typed before Enter: q alone was recorded.
C16_Witness ==
    /\ pc = "loop"
    /\ guess = <<113, 97>>
    /\ guesses = <<113>>
    /\ events[3] = KeyEnter

\* The UTF-8 bytes of p hold a byte of 128 or more.
HasHighByte(p) == \E i \in 1..Len(AsBytes(p)) : AsBytes(p)[i] >= 128

\* A game exists only with a phrase of bytes below 128; after the panic of
\* the constructor no field of a game holds a value.
ConstructedPhraseIsAscii ==
    /\ pc \notin {"new", "panic"} => ~HasHighByte(phrase)
    /\ pc = "panic" =>
          /\ HasHighByte(phrase)
          /\ lives = 0 /\ guesses = <<>> /\ ~should_quit
          /\ queue = <<>> /\ result = "running"

\* Construction with a high byte panics; nothing follows the panic; the
\* phrase is never changed.
PanicsAndKeepsPhrase ==
    /\ (pc = "new" /\ HasHighByte(phrase)) => pc' = "panic"
    /\ pc # "panic"
    /\ phrase' = phrase

\* C17: constructing the game with a phrase that holds a byte of 128 or more
\* panics before any game state exists; every constructed game holds a phrase
\* whose bytes are all below 128, and the phrase is never changed.
C17_PhraseValidated ==
    []ConstructedPhraseIsAscii /\ [][PanicsAndKeepsPhrase]_vars

\* The constructor panicked on the phrase "a" followed by U+00E9.
C17_Witness ==
    /\ pc = "panic"
    /\ phrase = <<97, 233>>

\* C18: Ctrl+q during a round's input ends the input with an empty guess,
\* whatever was typed before it: the round changes nothing and the session
\* goes on.
C18_CtrlQYieldsEmptyGuess ==
    [][(KeyRound /\ EndEvent = KeyCtrlQ) =>
          /\ guess' = <<>>
          /\ UNCHANGED <<guesses, lives, should_quit>>
          /\ pc' = "loop"]_vars

\* Every letter a to z is in GuessSet.
AllLettersGuessed == \A c \in LOWERCASE : Recorded(c)

\* C19: once the player has guessed every letter a to z the game has set
\* the quit flag, having reached Won or Lost: no reachable state of a game
\* still being played has all 26 letters in GuessSet.
C19_AllLettersEndTheGame == AllLettersGuessed => should_quit

\* ------------------------------------------- the line-input game (lib.rs)

\* The game of src/src/lib.rs reads each guess as a line of standard input
\* and prints to standard output.  Its state is held in the same variables:
\* phrase, guesses (there a list of strings), should_quit, the counter
\* guesses_remaining in lives, the trimmed line last read in guess, the line
\* as read in events, and what is on the terminal since it was last cleared
\* in queue.

guesses_remaining == lives

QUIT == <<113, 117, 105, 116>>

InitialGuessesRemaining == 7

\* Most entries the guess list grows to: a capital letter is pushed again
\* each time it is submitted, so the list has no bound of its own.
MaxListed == 8

NewLine == 10

\* The characters with the Unicode property White_Space.
WhiteSpace ==
    (9..13) \cup {32, 133, 160, 5760} \cup (8192..8202)
        \cup {8232, 8233, 8239, 8287, 12288}

IsWhitespace(c) == c \in WhiteSpace

\* char::to_lowercase and str::to_lowercase on one character, as a string.
\* The characters of the model are ASCII, where only A to Z change.
ToLowercase(c) == IF c \in CAPITAL THEN <<c + 32>> ELSE <<c>>

\* char::to_string.
CharToString(c) == <<c>>

RECURSIVE TrimStart(_)
TrimStart(s) ==
    IF s # <<>> /\ IsWhitespace(Head(s)) THEN TrimStart(Tail(s)) ELSE s

RECURSIVE TrimEnd(_)
TrimEnd(s) ==
    IF s # <<>> /\ IsWhitespace(s[Len(s)])
    THEN TrimEnd(SubSeq(s, 1, Len(s) - 1))
    ELSE s

\* str::trim: the line without leading and trailing white space.
Trim(s) == TrimEnd(TrimStart(s))

\* str::contains with a string pattern: pat is a substring of s.
ContainsStr(s, pat) ==
    \E i \in 1..(Len(s) - Len(pat) + 1) : SubSeq(s, i, i + Len(pat) - 1) = pat

\* Vec<String>::contains.
Listed(gs, str) == \E i \in 1..Len(gs) : gs[i] = str

RECURSIVE LineHiddenFrom(_, _, _)
LineHiddenFrom(p, gs, i) ==
    IF i > Len(p) THEN <<>>
    ELSE LET char == p[i]
         IN <<IF Listed(gs, ToLowercase(char)) \/ IsWhitespace(char)
              THEN char
              ELSE Underscore>> \o LineHiddenFrom(p, gs, i + 1)

\* construct_hidden_phrase of lib.rs.
LineConstructHiddenPhrase(p, gs) == LineHiddenFrom(p, gs, 1)

\* What print! and println! write to the terminal: a literal, a string of
\* the game, a number.
Printed(literal) == <<"print", literal>>

PrintedChars(str) == <<"chars", str>>

PrintedNumber(n) == <<"number", n>>

\* Vec<String>::join(", ").
RECURSIVE JoinComma(_)
JoinComma(gs) ==
    IF gs = <<>> THEN <<>>
    ELSE IF Len(gs) = 1 THEN gs[1]
    ELSE gs[1] \o <<44, 32>> \o JoinComma(Tail(gs))

\* clear_terminal: the escape codes erase the screen and home the cursor.
ClearTerminal(screen) == <<>>

\* The rules as printed, with ' for the grave accents of the source.
RulesText ==
    <<"The rules of Rusty Hangman are:",
      "1. To submit your guess for each round, type in a character and press the 'Enter' key. If more than one character is given prior to pressing 'Enter', only the first character is accepted as a guess.",
      "2. The game does not treat the secret phrase as case-sensitive.",
      "3. If at any time you want to quit the game, submit 'quit' as a guess.">>

DisplayRules(screen) == Append(screen, Printed(RulesText))

DisplayWelcomeMessage(screen, p, gs) ==
    DisplayRules(Append(screen, Printed("Welcome to the Rusty Hangman!\r\n\n")))
        \o <<Printed("\n\r\nThe secret word is:\r\n"),
             PrintedChars(LineConstructHiddenPhrase(p, gs)),
             Printed("\n\n")>>

DisplayGameArea(screen, p, gs, remaining) ==
    screen \o <<Printed("\n\nThe phrase is:\n\n"),
                PrintedChars(LineConstructHiddenPhrase(p, gs)),
                Printed("\nGuesses remaining: "),
                PrintedNumber(remaining),
                Printed("\nPast Guesses: "),
                PrintedChars(JoinComma(gs)),
                Printed("\n")>>

UpdateDisplay(screen, p, gs, remaining) ==
    DisplayGameArea(DisplayRules(ClearTerminal(screen)), p, gs, remaining)

CongratsMessage == "\nCongrats on winning the Rusty Hangman!\n"

ThankYouMessage == "\nThank you for playing Rusty Hangman!\n"

\* end: what the game prints when the loop is left.
End(screen, p, remaining) ==
    IF remaining > 0
    THEN Append(screen, Printed(CongratsMessage))
    ELSE screen \o <<Printed(ThankYouMessage),
                     Printed("\nThe secret phrase was:\n"),
                     PrintedChars(p),
                     Printed("\n")>>

\* The game's mutable fields and the terminal, as one value the methods of
\* lib.rs change in turn.
Game(gs, remaining, quit, screen) ==
    [guesses |-> gs, guesses_remaining |-> remaining, should_quit |-> quit,
     screen |-> screen]

\* check_guess: a listed guess is reported, a guess the phrase does not
\* contain costs one remaining guess, and the last one ends the game.
CheckGuess(g, p, ch) ==
    IF Listed(g.guesses, ch)
    THEN [g EXCEPT !.screen =
             @ \o <<PrintedChars(ch),
                    Printed(" has already been guessed, goofball\n")>>]
    ELSE IF ~ContainsStr(p, ch)
    THEN [g EXCEPT !.guesses_remaining = @ - 1,
                   !.should_quit = IF g.guesses_remaining - 1 = 0
                                   THEN TRUE ELSE @]
    ELSE g

\* add_guess of lib.rs: checks the lowercased guess, pushes it unless the
\* guess as typed is listed, and ends the game when nothing is hidden.
LineAddGuess(g, p, c) ==
    LET clean_guess == ToLowercase(c)
        checked == CheckGuess(g, p, clean_guess)
        pushed == IF ~Listed(checked.guesses, CharToString(c))
                  THEN [checked EXCEPT !.guesses = Append(@, clean_guess)]
                  ELSE checked
    IN IF LineConstructHiddenPhrase(p, pushed.guesses) = p
       THEN [pushed EXCEPT !.should_quit = TRUE]
       ELSE pushed

\* evaluate_guess of lib.rs on the trimmed line.
LineEvaluateGuess(g, p, line) ==
    IF line = QUIT
    THEN [g EXCEPT !.should_quit = TRUE]
    ELSE LET added == IF line # <<>> THEN LineAddGuess(g, p, line[1]) ELSE g
         IN [added EXCEPT !.screen =
                UpdateDisplay(@, p, added.guesses, added.guesses_remaining)]

\* The phrases read_command_line returns: the arguments joined by spaces
\* ("a", "A", "a b"), or the line typed at the prompt with its line
\* end ("b" and an empty line), or nothing when standard input is at its
\* end.
LinePhrases ==
    {<<97>>, <<65>>, <<97, 32, 98>>,
     <<98, NewLine>>, <<NewLine>>, <<>>}

\* What the player types on a line at any time: nothing, a, A, b, "quit",
\* " quit " and "Quit".
LineTexts ==
    {<<>>, <<97>>, <<65>>, <<98>>,
     QUIT, <<32>> \o QUIT \o <<32>>, <<81, 117, 105, 116>>}

\* Further guesses the player submits in this order, each once: c, d, e, f,
\* g and 1.
Fillers == <<99, 100, 101, 102, 103, 49>>

\* The next of them not yet listed.
NextFillers(gs) ==
    LET left == {i \in 1..Len(Fillers) : ~Listed(gs, <<Fillers[i]>>)}
    IN IF left = {} THEN {}
       ELSE {<<Fillers[CHOOSE i \in left : \A j \in left : i <= j]>>}

\* What read_line leaves in the buffer: the text and its line end, or
\* nothing at the end of standard input.
RawLines(gs) ==
    {text \o <<NewLine>> : text \in LineTexts \cup NextFillers(gs)}
        \cup {<<>>}

\* The state HangmanGame::new of lib.rs returns.
InitLine ==
    /\ phrase \in LinePhrases
    /\ guesses = <<>>
    /\ lives = InitialGuessesRemaining
    /\ should_quit = FALSE
    /\ guess = <<>>
    /\ pc = "start"
    /\ farewell = "none"
    /\ queue = <<>>
    /\ events = <<>>
    /\ result = "running"

\* start: clears the terminal and prints the welcome message.
Start ==
    /\ pc = "start"
    /\ pc' = "loop"
    /\ queue' = DisplayWelcomeMessage(ClearTerminal(queue), phrase, guesses)
    /\ UNCHANGED <<phrase, lives, guesses, should_quit, guess, farewell,
                   events, result>>

\* One turn of play's loop: reads a line, evaluates it trimmed, clears the
\* buffer.
ReadLineAndEvaluate ==
    /\ pc = "loop"
    /\ ~should_quit
    /\ \E s \in RawLines(guesses) :
         LET after == LineEvaluateGuess(
                          Game(guesses, guesses_remaining, should_quit, queue),
                          phrase, Trim(s))
         IN /\ Len(after.guesses) <= MaxListed
            /\ guess' = Trim(s)
            /\ guesses' = after.guesses
            /\ lives' = after.guesses_remaining
            /\ should_quit' = after.should_quit
            /\ queue' = after.screen
    /\ events' = <<>>
    /\ UNCHANGED <<phrase, pc, farewell, result>>

\* read_line fails (a line that is not UTF-8, a closed terminal) and unwrap
\* panics.
ReadLinePanics ==
    /\ pc = "loop"
    /\ ~should_quit
    /\ pc' = "panic"
    /\ result' = "panic"
    /\ UNCHANGED <<phrase, lives, guesses, should_quit, guess, farewell,
                   queue, events>>

\* play leaves the loop and calls end.
Finish ==
    /\ pc = "loop"
    /\ should_quit
    /\ pc' = "done"
    /\ queue' = End(queue, phrase, guesses_remaining)
    /\ result' = "Ok"
    /\ UNCHANGED <<phrase, lives, guesses, should_quit, guess, farewell,
                   events>>

NextLine ==
    \/ Start
    \/ ReadLineAndEvaluate
    \/ ReadLinePanics
    \/ Finish

LineSpec == InitLine /\ [][NextLine]_vars

\* The hidden phrase view of the line-input game.
LineView == LineConstructHiddenPhrase(phrase, guesses)

\* The winning farewell is on the terminal.
WinningFarewellPrinted == Contains(queue, Printed(CongratsMessage))

\* The step in which the player submits quit.
QuitSubmitted ==
    /\ pc = "loop"
    /\ ~should_quit
    /\ pc' = "loop"
    /\ guess' = QUIT

\* C21: in the line-input game, however the session ends (phrase revealed,
\* guesses exhausted, quit submitted), the winning farewell is printed only
\* if the hidden phrase view equals the phrase at that moment; and the step
\* that submits quit records no guess and costs no remaining guess.
C21_WinningFarewellOnlyWhenRevealed ==
    /\ [](WinningFarewellPrinted => LineView = phrase)
    /\ [][QuitSubmitted => UNCHANGED <<guesses, lives>>]_vars

====
